---- MODULE Spec2Model ----
(***************************************************************************)
(* State-merge engine and leader counter of S12 (db_utils.py, main.py).    *)
(*                                                                         *)
(* The persistent store is the SQLite file: four tables, each a function   *)
(* from the primary keys present to the stored row.  `db` is what is       *)
(* committed, `conn` is what the open sqlite3 connection sees (committed   *)
(* rows plus the writes of its open, implicit transaction).                *)
(*                                                                         *)
(* Dates are ISO-8601 strings in the code ("2025-09-30"); they are         *)
(* modelled by their day number, which orders them as SQLite's text        *)
(* comparison orders the strings.  NULL / None is the value NULL.          *)
(***************************************************************************)
EXTENDS Integers, Sequences, FiniteSets, TLC

\* ---------------------------------------------------------------- bounds
NumDates == 2      \* distinct trading days a replay file can carry
MaxRuns == 3       \* run_replay processes started in one behaviour
MaxFaultRuns == 2  \* ... of them in the behaviours where a write can fail
MaxCalls == 3      \* upsert_many calls of a library client in one behaviour

\* ------------------------------------------------------- program constants
NULL == 0
TURNOVER_THRESHOLD_EOK == 5000

TickerSeq == <<"AAA", "BBB">>
Tickers == {TickerSeq[i] : i \in 1..Len(TickerSeq)}
Dates == 1..NumDates

LH == "leaders_history"
LE == "leaders_events"
PD == "prices_daily"
WU == "watch_universe"
Tables == {LH, LE, PD, WU}

\* The day's bar of one instrument as the replay CSV carries it.  Two sample
\* bars that differ in every column: one below the leader threshold, one above.
BarLow == [name |-> "Alpha", market |-> "KOSDAQ", open |-> 10, high |-> 12,
           low |-> 9, close |-> 11, volume |-> 100, turnover |-> 4000]
BarHigh == [name |-> "Alpha Holdings", market |-> "KOSPI", open |-> 20, high |-> 24,
            low |-> 19, close |-> 23, volume |-> 300, turnover |-> 6000]
Bars == {BarLow, BarHigh}

\* A replay file of one day: the instruments it lists, each with its bar.
Frames == UNION {[S -> Bars] : S \in (SUBSET Tickers) \ {{}}}

\* db         the committed store
\* conn       the store as the open connection sees it
\* run        the last process or call: what it was given and how it ended
\* nruns      processes / calls so far
\* leaderDays the dates on which each ticker was in leaders_set of a completed
\*            increment_times_above_5k
\* proc       the run_replay processes that run side by side, each with its
\*            position and what its SELECT returned
\* calc       a call of a function of s_core.py: its arguments and, once it
\*            returned, its result
\* probe      a run of rest_probe.py: the attempts and waits of fetch_rank so
\*            far, what it returned, the cache directory, the exit code
VARIABLES db, conn, run, nruns, leaderDays, proc, calc, probe
vars == <<db, conn, run, nruns, leaderDays, proc, calc, probe>>

\* ------------------------------------------------------------- db_utils.py
EmptyTable == [k \in {} |-> NULL]
EmptyStore == [t \in Tables |-> EmptyTable]

\* PRIMARY KEY of each table (DDL).
Key(table, r) ==
    IF table = WU THEN r.ticker
    ELSE IF table = LE THEN <<r.ticker, r.date>>
    ELSE <<r.date, r.ticker>>

\* SQLite's scalar MIN(a, b): NULL when either argument is NULL.
SqlMin(a, b) == IF a = NULL \/ b = NULL THEN NULL ELSE IF a <= b THEN a ELSE b

\* SQLite's COALESCE(a, b): the first argument that is not NULL.
Coalesce(a, b) == IF a # NULL THEN a ELSE b

\* Faulty variants of OnConflict (below): first_seen taken from the incoming
\* row; the later instead of the earlier first_seen; the stored counter kept;
\* volume added up instead of replaced; the stored row kept (DO NOTHING).
OnConflictFirstSeenIncoming(table, old, new) == new
OnConflictFirstSeenMax(table, old, new) ==
    IF table = LH
    THEN [new EXCEPT !.first_seen = IF old.first_seen >= new.first_seen
                                    THEN old.first_seen ELSE new.first_seen]
    ELSE IF table = WU
    THEN [new EXCEPT !.first_seen = Coalesce(old.first_seen, new.first_seen)]
    ELSE new
OnConflictKeepCounter(table, old, new) ==
    IF table = LH
    THEN [new EXCEPT !.first_seen = SqlMin(old.first_seen, new.first_seen)]
    ELSE IF table = WU
    THEN [new EXCEPT !.first_seen = Coalesce(old.first_seen, new.first_seen),
                     !.times_above_5k = old.times_above_5k]
    ELSE new
OnConflictAddVolume(table, old, new) ==
    IF table = LH
    THEN [new EXCEPT !.first_seen = SqlMin(old.first_seen, new.first_seen),
                     !.volume = old.volume + new.volume]
    ELSE IF table = WU
    THEN [new EXCEPT !.first_seen = Coalesce(old.first_seen, new.first_seen)]
    ELSE [new EXCEPT !.volume = old.volume + new.volume]
OnConflictDoNothing(table, old, new) == old
\* ON CONFLICT(...) DO UPDATE SET ... of UPSERT_SQL[table]: the row kept when
\* `new` (excluded.*) meets the stored row `old` under the same key.
OnConflict(table, old, new) ==
    IF table = LH
    THEN [new EXCEPT !.first_seen = SqlMin(old.first_seen, new.first_seen)]
    ELSE IF table = WU
    THEN [new EXCEPT !.first_seen = Coalesce(old.first_seen, new.first_seen)]
    ELSE new

\* Faulty variant of UpsertRow (below): the conflict target is the ticker
\* alone, so the update reaches every stored row of the ticker.
UpsertRowPerTicker(tbl, table, r) ==
    LET k == Key(table, r)
    IN [x \in (DOMAIN tbl) \cup {k} |->
          IF x = k
          THEN IF k \in DOMAIN tbl THEN OnConflict(table, tbl[k], r) ELSE r
          ELSE IF tbl[x].ticker = r.ticker
               THEN [tbl[x] EXCEPT !.first_seen = r.first_seen]
               ELSE tbl[x]]
\* One execution of UPSERT_SQL[table] with the parameters of row r.
UpsertRow(tbl, table, r) ==
    LET k == Key(table, r)
    IN [x \in (DOMAIN tbl) \cup {k} |->
          IF x = k
          THEN IF k \in DOMAIN tbl THEN OnConflict(table, tbl[k], r) ELSE r
          ELSE tbl[x]]

\* cur.executemany(UPSERT_SQL[table], rows): the rows in order, in the
\* connection's open transaction.
RECURSIVE ExecRows(_, _, _)
ExecRows(tbl, table, rows) ==
    IF Len(rows) = 0 THEN tbl
    ELSE ExecRows(UpsertRow(tbl, table, Head(rows)), table, Tail(rows))

executemany(view, table, rows) ==
    [view EXCEPT ![table] = ExecRows(view[table], table, rows)]

\* Faulty variant of upsert_many (below): the commit is reached for an empty
\* batch too.
upsert_many_commit_always(st, table, rows) ==
    LET c == executemany(st.conn, table, rows)
    IN [db |-> c, conn |-> c]
\* upsert_many that ran to its end.  st = [db, conn]; an empty batch returns
\* before any statement and before the commit.
upsert_many(st, table, rows) ==
    IF Len(rows) = 0 THEN st
    ELSE LET c == executemany(st.conn, table, rows)
         IN [db |-> c, conn |-> c]

\* What upsert_many returns: 0 for an empty batch, else cur.rowcount, which
\* after executemany is the sum of the statements' changes, one per row.
upsert_many_returns(rows) == IF Len(rows) = 0 THEN 0 ELSE Len(rows)

\* upsert_many whose executemany raised at row k+1: rows 1..k were executed in
\* the open transaction, conn.commit() was not reached, nothing rolls back.
upsert_many_raise(st, table, rows, k) ==
    [db |-> st.db, conn |-> executemany(st.conn, table, SubSeq(rows, 1, k))]

\* ----------------------------------------------------------------- core.py
\* (not among the sources: rows as the table schemas and section 3 give them)
split_leaders_and_universe(df) ==
    [leaders |-> {t \in DOMAIN df : df[t].turnover > TURNOVER_THRESHOLD_EOK},
     universe |-> DOMAIN df]

\* The tickers of S in the order of the file.
TickersIn(S) == SelectSeq(TickerSeq, LAMBDA t : t \in S)

\* Rows of the four tables, column for column as the DDL names them.
LHRow(date, t, b, fs, ls) ==
    [date |-> date, ticker |-> t, name |-> b.name, market |-> b.market,
     close |-> b.close, volume |-> b.volume, turnover |-> b.turnover,
     mktcap |-> NULL, first_seen |-> fs, last_seen |-> ls]
LERow(date, t, b) ==
    [ticker |-> t, date |-> date, turnover |-> b.turnover, close |-> b.close,
     high |-> b.high, low |-> b.low, volume |-> b.volume]
PDRow(date, t, b) ==
    [date |-> date, ticker |-> t, open |-> b.open, high |-> b.high,
     low |-> b.low, close |-> b.close, volume |-> b.volume,
     turnover |-> b.turnover]
WURow(t, b, fs, ls, cnt) ==
    [ticker |-> t, name |-> b.name, market |-> b.market, first_seen |-> fs,
     last_seen |-> ls, times_above_5k |-> cnt, last_turnover |-> b.turnover]

build_rows_for_tables(df, date) ==
    LET sp == split_leaders_and_universe(df)
        ls == TickersIn(sp.leaders)
        us == TickersIn(sp.universe)
    IN [lhist |-> [i \in 1..Len(ls) |-> LHRow(date, ls[i], df[ls[i]], date, date)],
        levents |-> [i \in 1..Len(ls) |-> LERow(date, ls[i], df[ls[i]])],
        wuniv |-> [i \in 1..Len(us) |-> WURow(us[i], df[us[i]], date, date, 0)],
        pdaily |-> [i \in 1..Len(us) |-> PDRow(date, us[i], df[us[i]])]]

\* ----------------------------------------------------------------- main.py
\* Faulty variants of IncrementRow (below): the leader's 1 is not added; the
\* stored count is not read; last_seen is today's date for every row.
IncrementRowNoAdd(existing, r, leaders_set) ==
    LET t == r.ticker
        has == t \in DOMAIN existing
        prev_cnt == IF has THEN existing[t].times_above_5k ELSE 0
        fs == IF has /\ existing[t].first_seen # NULL
              THEN existing[t].first_seen ELSE r.first_seen
        ls == IF t \notin leaders_set
              THEN (IF has THEN existing[t].first_seen ELSE NULL)
              ELSE r.last_seen
    IN [r EXCEPT !.times_above_5k = prev_cnt, !.first_seen = fs, !.last_seen = ls]
IncrementRowFromZero(existing, r, leaders_set) ==
    LET t == r.ticker
        has == t \in DOMAIN existing
        add == IF t \in leaders_set THEN 1 ELSE 0
        fs == IF has /\ existing[t].first_seen # NULL
              THEN existing[t].first_seen ELSE r.first_seen
        ls == IF t \notin leaders_set
              THEN (IF has THEN existing[t].first_seen ELSE NULL)
              ELSE r.last_seen
    IN [r EXCEPT !.times_above_5k = add, !.first_seen = fs, !.last_seen = ls]
IncrementRowLastSeenToday(existing, r, leaders_set) ==
    LET t == r.ticker
        has == t \in DOMAIN existing
        prev_cnt == IF has THEN existing[t].times_above_5k ELSE 0
        add == IF t \in leaders_set THEN 1 ELSE 0
        fs == IF has /\ existing[t].first_seen # NULL
              THEN existing[t].first_seen ELSE r.first_seen
    IN [r EXCEPT !.times_above_5k = prev_cnt + add, !.first_seen = fs]
\* Body of the loop of increment_times_above_5k for one batch row r.
\* `existing` is the watch_universe table as the SELECT returned it; the tuple
\* it keeps per ticker is (ticker, times_above_5k, first_seen), so prev[2] is
\* the stored first_seen: the row of a ticker that is not a leader today gets
\* that value as its last_seen.
IncrementRow(existing, r, leaders_set) ==
    LET t == r.ticker
        has == t \in DOMAIN existing
        prev_cnt == IF has THEN existing[t].times_above_5k ELSE 0
        add == IF t \in leaders_set THEN 1 ELSE 0
        fs == IF has /\ existing[t].first_seen # NULL
              THEN existing[t].first_seen ELSE r.first_seen
        ls == IF t \notin leaders_set
              THEN (IF has THEN existing[t].first_seen ELSE NULL)
              ELSE r.last_seen
    IN [r EXCEPT !.times_above_5k = prev_cnt + add, !.first_seen = fs,
                 !.last_seen = ls]

\* Faulty variant of IncrementRows (below): the stored rows of the tickers
\* that are not in the batch are written back as well, counted once more.
IncrementRowsAllStored(existing, wuniv_rows, leaders_set) ==
    LET batch == {wuniv_rows[i].ticker : i \in 1..Len(wuniv_rows)}
        rest == SelectSeq(TickerSeq,
                          LAMBDA t : t \in DOMAIN existing /\ t \notin batch)
    IN [i \in 1..Len(wuniv_rows) |->
           IncrementRow(existing, wuniv_rows[i], leaders_set)]
       \o [i \in 1..Len(rest) |->
              [existing[rest[i]] EXCEPT !.times_above_5k = @ + 1]]

\* The list `out` of increment_times_above_5k.
IncrementRows(existing, wuniv_rows, leaders_set) ==
    [i \in 1..Len(wuniv_rows) |->
        IncrementRow(existing, wuniv_rows[i], leaders_set)]

increment_times_above_5k(st, wuniv_rows, leaders_set) ==
    upsert_many(st, WU, IncrementRows(st.conn[WU], wuniv_rows, leaders_set))

\* The batch the n-th write of run_replay hands to upsert_many, n = 1..4 for
\* leaders_history, leaders_events, prices_daily, watch_universe; st is the
\* store as the n-1 writes before it left it.
StepTable(n) == <<LH, LE, PD, WU>>[n]
StepRows(st, df, date, n) ==
    LET rows == build_rows_for_tables(df, date)
        sp == split_leaders_and_universe(df)
    IN IF n = 1 THEN rows.lhist
       ELSE IF n = 2 THEN rows.levents
       ELSE IF n = 3 THEN rows.pdaily
       ELSE IncrementRows(st.conn[WU], rows.wuniv, sp.leaders)

\* The store after the first n writes of run_replay completed.
RECURSIVE RunSteps(_, _, _, _)
RunSteps(st, df, date, n) ==
    IF n = 0 THEN st
    ELSE LET rows == build_rows_for_tables(df, date)
             sp == split_leaders_and_universe(df)
             s == RunSteps(st, df, date, n - 1)
         IN IF n = 1 THEN upsert_many(s, LH, rows.lhist)
            ELSE IF n = 2 THEN upsert_many(s, LE, rows.levents)
            ELSE IF n = 3 THEN upsert_many(s, PD, rows.pdaily)
            ELSE increment_times_above_5k(s, rows.wuniv, sp.leaders)

\* The processes of the runs that share the store.
Procs == {"run1", "run2"}

Init ==
    /\ db = EmptyStore
    /\ conn = EmptyStore
    /\ run = [op |-> "init"]
    /\ nruns = 0
    /\ leaderDays = [t \in Tickers |-> {}]
    /\ proc = [p \in Procs |-> [pc |-> "idle"]]
    /\ probe = [pc |-> "none"]
    /\ calc = [op |-> "none"]

\* run_replay to its end: one process, one day.
RunReplay(date, df) ==
    /\ nruns < MaxRuns
    /\ LET s0 == [db |-> db, conn |-> db]
           s4 == RunSteps(s0, df, date, 4)
           sp == split_leaders_and_universe(df)
       IN /\ db' = s4.db
          /\ conn' = s4.db
          /\ leaderDays' = [t \in Tickers |->
                IF t \in sp.leaders THEN leaderDays[t] \cup {date} ELSE leaderDays[t]]
    /\ run' = [op |-> "replay", date |-> date, df |-> df]
    /\ nruns' = nruns + 1
    /\ UNCHANGED <<proc, calc, probe>>

\* Faulty variant of RunReplayMismatch (below): the date is checked after the
\* four writes.
RunReplayMismatchLate(date, csvDates) ==
    /\ nruns < MaxRuns
    /\ csvDates # {date}
    /\ \E df \in Frames :
          LET s4 == RunSteps([db |-> db, conn |-> db], df, date, 4)
          IN db' = s4.db /\ conn' = s4.db
    /\ run' = [op |-> "mismatch", date |-> date]
    /\ nruns' = nruns + 1
    /\ UNCHANGED <<proc, calc, probe>>
    /\ UNCHANGED leaderDays
\* run_replay on a CSV that does not hold exactly the one date
\* cfg["test_date"]: ValueError before the connection is opened.
RunReplayMismatch(date, csvDates) ==
    /\ nruns < MaxRuns
    /\ csvDates # {date}
    /\ run' = [op |-> "mismatch", date |-> date]
    /\ nruns' = nruns + 1
    /\ UNCHANGED <<proc, calc, probe>>
    /\ UNCHANGED <<db, conn, leaderDays>>

\* run_replay whose n-th write raised inside executemany after k rows: the
\* exception leaves run_replay and main, the process ends, and closing the
\* connection drops its uncommitted transaction.
RunReplayAbort(date, df, n, k) ==
    /\ nruns < MaxFaultRuns
    /\ LET s0 == [db |-> db, conn |-> db]
           s == RunSteps(s0, df, date, n - 1)
           rows == StepRows(s, df, date, n)
       IN /\ k < Len(rows)
          /\ LET f == upsert_many_raise(s, StepTable(n), rows, k)
             IN /\ db' = f.db
                /\ conn' = f.db
    /\ run' = [op |-> "abort", date |-> date, df |-> df, step |-> n]
    /\ nruns' = nruns + 1
    /\ UNCHANGED <<proc, calc, probe>>
    /\ UNCHANGED leaderDays

Next ==
    \/ \E date \in Dates, df \in Frames : RunReplay(date, df)
    \/ \E date \in Dates, csvDates \in SUBSET Dates : RunReplayMismatch(date, csvDates)

Spec == Init /\ [][Next]_vars

\* The program in an environment where a write can fail (disk full, database
\* locked, a row the schema rejects).
NextFault ==
    \/ Next
    \/ \E date \in Dates, df \in Frames, n \in 1..4, k \in 0..1 :
          RunReplayAbort(date, df, n, k)

SpecFault == Init /\ [][NextFault]_vars

\* ------------------------------------------------ db_utils.py as a library
\* A client that keeps one connection open and calls upsert_many on it,
\* catching what it raises.  Sample rows per table: two or three under one
\* key that differ in every other column, and one under a second key (in
\* leaders_history the same ticker on a later date).
Samples(table) ==
    IF table = LH
    THEN {LHRow(1, "AAA", BarLow, 1, 1), LHRow(1, "AAA", BarHigh, 2, 2),
          LHRow(1, "AAA", BarLow, NULL, 2), LHRow(2, "AAA", BarHigh, 2, 2)}
    ELSE IF table = WU
    THEN {WURow("AAA", BarLow, 1, NULL, 0), WURow("AAA", BarHigh, 2, 2, 1),
          WURow("AAA", BarLow, NULL, 1, 2), WURow("BBB", BarHigh, 1, 1, 1)}
    ELSE IF table = LE
    THEN {LERow(1, "AAA", BarLow), LERow(1, "AAA", BarHigh), LERow(2, "BBB", BarLow)}
    ELSE {PDRow(1, "AAA", BarLow), PDRow(1, "AAA", BarHigh), PDRow(2, "BBB", BarLow)}

Batches(table) ==
    {<<>>} \cup {<<a>> : a \in Samples(table)}
           \cup {<<a, b>> : a \in Samples(table), b \in Samples(table)}

\* The client works on one table: the table of its first call.
SameTable(table) == IF run.op = "init" THEN TRUE ELSE run.table = table

\* upsert_many(conn, table, rows) returned.
ApiUpsert(table, rows) ==
    /\ nruns < MaxCalls
    /\ SameTable(table)
    /\ LET s == upsert_many([db |-> db, conn |-> conn], table, rows)
       IN /\ db' = s.db
          /\ conn' = s.conn
    /\ run' = [op |-> "upsert", table |-> table, rows |-> rows,
               ret |-> upsert_many_returns(rows),
               again |-> IF run.op = "upsert" THEN run.rows = rows ELSE FALSE]
    /\ nruns' = nruns + 1
    /\ UNCHANGED <<proc, calc, probe>>
    /\ UNCHANGED leaderDays

\* upsert_many(conn, table, rows) with a table name UPSERT_SQL does not have:
\* an empty batch returns 0 before the name is looked up, any other batch
\* ends in a KeyError before a statement runs.
NoTable == "no_such_table"
ApiUpsertNoTable(rows) ==
    /\ nruns < MaxCalls
    /\ SameTable(NoTable)
    /\ run' = IF Len(rows) = 0
              THEN [op |-> "upsert", table |-> NoTable, rows |-> rows,
                    ret |-> upsert_many_returns(rows),
                    again |-> IF run.op = "upsert" THEN run.rows = rows
                              ELSE FALSE]
              ELSE [op |-> "keyerror", table |-> NoTable, rows |-> rows]
    /\ nruns' = nruns + 1
    /\ UNCHANGED <<proc, calc, probe>>
    /\ UNCHANGED <<db, conn, leaderDays>>

\* upsert_many(conn, table, rows) raised at row k+1; the client goes on.
ApiUpsertRaise(table, rows, k) ==
    /\ nruns < MaxCalls
    /\ SameTable(table)
    /\ k < Len(rows)
    /\ LET s == upsert_many_raise([db |-> db, conn |-> conn], table, rows, k)
       IN /\ db' = s.db
          /\ conn' = s.conn
    /\ run' = [op |-> "raise", table |-> table, rows |-> rows, k |-> k]
    /\ nruns' = nruns + 1
    /\ UNCHANGED <<proc, calc, probe>>
    /\ UNCHANGED leaderDays

\* The client closes the connection and opens a new one: sqlite3 drops the
\* uncommitted transaction.
ApiReopen ==
    /\ nruns < MaxCalls
    /\ run.op \notin {"init", "reopen"}
    /\ conn' = db
    /\ run' = [op |-> "reopen", table |-> run.table]
    /\ nruns' = nruns + 1
    /\ UNCHANGED <<proc, calc, probe>>
    /\ UNCHANGED <<db, leaderDays>>

NextApi ==
    \/ \E table \in Tables : \E rows \in Batches(table) : ApiUpsert(table, rows)
    \/ \E table \in Tables : \E rows \in Batches(table) : \E k \in 0..1 :
          ApiUpsertRaise(table, rows, k)
    \/ \E rows \in Batches(PD) : ApiUpsertNoTable(rows)
    \/ ApiReopen

SpecApi == Init /\ [][NextApi]_vars

\* Three runs on three consecutive days from the empty store: the k-th run
\* replays day k.
ThreeDays == <<1, 2, 3>>

DailyRun(df) ==
    /\ nruns < Len(ThreeDays)
    /\ RunReplay(ThreeDays[nruns + 1], df)

NextDaily == \E df \in Frames : DailyRun(df)

SpecDaily == Init /\ [][NextDaily]_vars

\* ------------------------------------------- two runs against one store
\* Two run_replay processes started side by side on the same database file,
\* each on its own connection.  Every upsert_many is one write transaction,
\* which SQLite runs alone; the SELECT of increment_times_above_5k is a
\* statement of its own, outside any transaction, and its rows are all
\* fetched into `existing` before the loop starts.

\* run_replay up to init_db: the CSV has passed the date check, the batches
\* are built, the connection is open.
ProcStart(p, date, df) ==
    /\ proc[p].pc = "idle"
    /\ proc' = [proc EXCEPT ![p] = [pc |-> "upsert", step |-> 1,
                                    date |-> date, df |-> df]]
    /\ UNCHANGED <<db, conn, run, nruns, leaderDays, calc, probe>>

\* The upsert_many of leaders_history, leaders_events, prices_daily.
ProcUpsert(p) ==
    /\ proc[p].pc = "upsert"
    /\ LET n == proc[p].step
           s0 == [db |-> db, conn |-> db]
           s == upsert_many(s0, StepTable(n),
                            StepRows(s0, proc[p].df, proc[p].date, n))
       IN /\ db' = s.db
          /\ conn' = s.db
          /\ proc' = [proc EXCEPT ![p] =
                IF n < 3 THEN [@ EXCEPT !.step = n + 1]
                ELSE [pc |-> "select", date |-> @.date, df |-> @.df]]
    /\ UNCHANGED <<run, nruns, leaderDays, calc, probe>>

\* increment_times_above_5k, the SELECT: `existing` is the committed table.
ProcSelect(p) ==
    /\ proc[p].pc = "select"
    /\ proc' = [proc EXCEPT ![p] = [pc |-> "increment", date |-> @.date,
                                    df |-> @.df, existing |-> db[WU]]]
    /\ UNCHANGED <<db, conn, run, nruns, leaderDays, calc, probe>>

\* increment_times_above_5k, the loop over the batch and the upsert_many of
\* `out`, computed from `existing` as the SELECT returned it.
ProcIncrement(p) ==
    /\ proc[p].pc = "increment"
    /\ LET rows == build_rows_for_tables(proc[p].df, proc[p].date)
           sp == split_leaders_and_universe(proc[p].df)
           out == IncrementRows(proc[p].existing, rows.wuniv, sp.leaders)
           s == upsert_many([db |-> db, conn |-> db], WU, out)
       IN /\ db' = s.db
          /\ conn' = s.db
    /\ proc' = [proc EXCEPT ![p] = [pc |-> "done", date |-> @.date,
                                    df |-> @.df]]
    /\ UNCHANGED <<run, nruns, leaderDays, calc, probe>>

NextConcurrent ==
    \/ \E p \in Procs, date \in Dates, df \in Frames : ProcStart(p, date, df)
    \/ \E p \in Procs : ProcUpsert(p)
    \/ \E p \in Procs : ProcSelect(p)
    \/ \E p \in Procs : ProcIncrement(p)

SpecConcurrent == Init /\ [][NextConcurrent]_vars

\* --------------------------------------------------------------- s_core.py
\* The float columns of a frame.  A number is a fraction n/d in lowest terms
\* with d > 0; NaN is 0/0 and the infinities are 1/0 and -1/0, so that the
\* arithmetic below gives what IEEE arithmetic gives for them.  Rounding is
\* not modelled: the operations are exact.
Abs(k) == IF k < 0 THEN -k ELSE k
Sign(k) == IF k > 0 THEN 1 ELSE IF k < 0 THEN -1 ELSE 0
RECURSIVE Gcd(_, _)
Gcd(a, b) == IF b = 0 THEN a ELSE Gcd(b, a % b)
Frac(n, d) ==
    IF d = 0 THEN [n |-> Sign(n), d |-> 0]
    ELSE LET g == Gcd(Abs(n), Abs(d))
         IN [n |-> (Sign(d) * n) \div g, d |-> Abs(d) \div g]
Num(k) == [n |-> k, d |-> 1]
NaN == [n |-> 0, d |-> 0]
IsNaN(x) == x.n = 0 /\ x.d = 0
Mul(x, y) == Frac(x.n * y.n, x.d * y.d)
Div(x, y) == Frac(x.n * y.d, x.d * y.n)
Add(x, y) ==
    IF x.d = 0 /\ y.d = 0 THEN (IF x = y THEN x ELSE NaN)
    ELSE Frac(x.n * y.d + y.n * x.d, x.d * y.d)
Sub(x, y) == Add(x, [n |-> -y.n, d |-> y.d])
Less(x, y) ==
    IF IsNaN(x) \/ IsNaN(y) THEN FALSE
    ELSE IF x.d = 0 \/ y.d = 0
    THEN x # y /\ (x = [n |-> -1, d |-> 0] \/ y = [n |-> 1, d |-> 0])
    ELSE x.n * y.d < y.n * x.d
\* x >= y as pandas compares a column with a scalar: False for NaN.
Ge(x, y) == IF IsNaN(x) \/ IsNaN(y) THEN FALSE ELSE ~Less(x, y)

\* Config: band_pct, and the market-cap thresholds in units of 10^11 won.
band_pct == Frac(20, 100)
min_mcap_won == Num(13)
highlight_mcap_won == Num(50)

RECURSIVE SumSeq(_)
SumSeq(q) == IF Len(q) = 0 THEN Num(0) ELSE Add(q[1], SumSeq(Tail(q)))
\* Series.rolling(window, min_periods=window).mean() of a series q, at
\* position k: NaN until the window is full.
RollingMean(q, window, k) ==
    IF k < window THEN NaN
    ELSE Div(SumSeq(SubSeq(q, k - window + 1, k)), Num(window))

\* The rows of ticker t, in frame order: one group of groupby(ticker).
GroupOf(df, t) == SelectSeq(df, LAMBDA r : r.ticker = t)
\* The place of row i of the frame within its group.
PlaceInGroup(df, i) ==
    Cardinality({j \in 1..i : df[j].ticker = df[i].ticker})

\* Faulty variant of enrich_with_envelope (below): the window rolls over the
\* whole frame, not per ticker.
enrich_with_envelope_ungrouped(df, ma_window) ==
    [i \in 1..Len(df) |->
        LET ma20 == RollingMean([j \in 1..Len(df) |-> df[j].close],
                                ma_window, i)
        IN [ma20 |-> ma20,
            env_upper |-> Mul(ma20, Add(Num(1), band_pct)),
            env_lower |-> Mul(ma20, Sub(Num(1), band_pct))] @@ df[i]]
\* enrich_with_envelope: _calc applied to every group, the rows back in frame
\* order.
enrich_with_envelope(df, ma_window) ==
    [i \in 1..Len(df) |->
        LET g == GroupOf(df, df[i].ticker)
            ma20 == RollingMean([j \in 1..Len(g) |-> g[j].close],
                                ma_window, PlaceInGroup(df, i))
        IN [ma20 |-> ma20,
            env_upper |-> Mul(ma20, Add(Num(1), band_pct)),
            env_lower |-> Mul(ma20, Sub(Num(1), band_pct))] @@ df[i]]

\* Faulty variant of filter_by_market_cap (below): the boundary is left out.
filter_by_market_cap_strict(df) ==
    LET out == SelectSeq(df, LAMBDA r : Less(min_mcap_won, r.market_cap))
    IN [i \in 1..Len(out) |->
          [is_ge_5trn |-> Less(highlight_mcap_won, out[i].market_cap)] @@ out[i]]
\* filter_by_market_cap with the default Config.
filter_by_market_cap(df) ==
    LET out == SelectSeq(df, LAMBDA r : Ge(r.market_cap, min_mcap_won))
    IN [i \in 1..Len(out) |->
          [is_ge_5trn |-> Ge(out[i].market_cap, highlight_mcap_won)] @@ out[i]]

\* (X - close) / close * 100.0
GapPct(X, close) == Mul(Div(Sub(X, close), close), Num(100))
\* Faulty variants of s1_compute_levels (below): C ten percent of A below B;
\* undefined levels filled with 0.
s1_compute_levels_of_A(snapshot_df) ==
    [i \in 1..Len(snapshot_df) |->
        LET r == snapshot_df[i]
            A == r.env_lower
            B == Mul(A, Frac(9, 10))
            C == Sub(B, Mul(A, Frac(1, 10)))
        IN [s1_A_env_lower |-> A, s1_B_minus10pct |-> B, s1_C_minus10pct |-> C,
            gap_to_A_pct |-> GapPct(A, r.close),
            gap_to_B_pct |-> GapPct(B, r.close),
            gap_to_C_pct |-> GapPct(C, r.close)] @@ r]
s1_compute_levels_fillna(snapshot_df) ==
    [i \in 1..Len(snapshot_df) |->
        LET r == snapshot_df[i]
            A == IF IsNaN(r.env_lower) THEN Num(0) ELSE r.env_lower
            B == Mul(A, Frac(9, 10))
            C == Mul(B, Frac(9, 10))
        IN [s1_A_env_lower |-> A, s1_B_minus10pct |-> B, s1_C_minus10pct |-> C,
            gap_to_A_pct |-> GapPct(A, r.close),
            gap_to_B_pct |-> GapPct(B, r.close),
            gap_to_C_pct |-> GapPct(C, r.close)] @@ r]
\* s1_compute_levels: six columns added to every row of the snapshot.
s1_compute_levels(snapshot_df) ==
    [i \in 1..Len(snapshot_df) |->
        LET r == snapshot_df[i]
            A == r.env_lower
            B == Mul(A, Frac(9, 10))
            C == Mul(B, Frac(9, 10))
        IN [s1_A_env_lower |-> A, s1_B_minus10pct |-> B, s1_C_minus10pct |-> C,
            gap_to_A_pct |-> GapPct(A, r.close),
            gap_to_B_pct |-> GapPct(B, r.close),
            gap_to_C_pct |-> GapPct(C, r.close)] @@ r]

\* The rows of ticker t by their place in the frame, and idxmax of their
\* dates: the first place that holds the largest date.
PlacesOf(df, t) == {i \in 1..Len(df) : df[i].ticker = t}
IdxMax(df, t) ==
    CHOOSE i \in PlacesOf(df, t) :
        \A j \in PlacesOf(df, t) :
            df[j].date < df[i].date \/ (df[j].date = df[i].date /\ i <= j)
\* Faulty variant of IdxMax (below): of the rows with the largest date the
\* last one.
IdxMaxLast(df, t) ==
    CHOOSE i \in PlacesOf(df, t) :
        \A j \in PlacesOf(df, t) :
            df[j].date < df[i].date \/ (df[j].date = df[i].date /\ j <= i)
\* The group keys of groupby(ticker), which sorts them.
GroupKeys(df) == SelectSeq(TickerSeq, LAMBDA t : PlacesOf(df, t) # {})
\* Faulty variant of latest_snapshot (below), built on IdxMaxLast.
latest_snapshot_last(df) ==
    [k \in 1..Len(GroupKeys(df)) |-> df[IdxMaxLast(df, GroupKeys(df)[k])]]
\* latest_snapshot: df.loc[idx] for idx the idxmax of date per ticker.
latest_snapshot(df) ==
    [k \in 1..Len(GroupKeys(df)) |-> df[IdxMax(df, GroupKeys(df)[k])]]

\* ------------------------------------------------------------------ S12.py
\* x <= y as pandas compares two columns: False for NaN.
Le(x, y) == IF IsNaN(x) \/ IsNaN(y) THEN FALSE ELSE ~Less(y, x)
\* Series.round: to the nearest multiple of 1/scale, a tie to the even one.
Round(x, scale) ==
    IF x.d = 0 THEN x
    ELSE LET m == x.n * scale
             q == m \div x.d
             r == m - q * x.d
             up == 2 * r > x.d \/ (2 * r = x.d /\ q % 2 = 1)
         IN Frac(IF up THEN q + 1 ELSE q, scale)

\* sort_values(["is_ge_5trn", "gap_to_A_pct"], ascending=[False, True]): the
\* flagged rows first, then by gap with NaN last; rows that compare equal
\* keep their order.
SortsBefore(a, b) ==
    IF a.is_ge_5trn # b.is_ge_5trn THEN a.is_ge_5trn
    ELSE IF IsNaN(a.gap_to_A_pct) THEN FALSE
    ELSE IF IsNaN(b.gap_to_A_pct) THEN TRUE
    ELSE Less(a.gap_to_A_pct, b.gap_to_A_pct)
SortPlace(snap, i) ==
    1 + Cardinality({j \in 1..Len(snap) :
                        \/ SortsBefore(snap[j], snap[i])
                        \/ (~SortsBefore(snap[i], snap[j]) /\ j < i)})
SortValues(snap) ==
    [k \in 1..Len(snap) |->
        snap[CHOOSE i \in 1..Len(snap) : SortPlace(snap, i) = k]]

\* The columns of the sheet.  mcap_eok is the column the code names
\* mcap_억원: the market cap in units of 10^8 won, 1000 to the model's unit
\* of 10^11 won, as an integer.
OutCols(r) ==
    [ticker |-> r.ticker,
     mcap_eok |-> Round(Mul(r.market_cap, Num(1000)), 1).n,
     is_ge_5trn |-> r.is_ge_5trn,
     close |-> Round(r.close, 100),
     ma20 |-> Round(r.ma20, 100),
     env_lower |-> Round(r.env_lower, 100),
     s1_B_minus10pct |-> Round(r.s1_B_minus10pct, 100),
     s1_C_minus10pct |-> Round(r.s1_C_minus10pct, 100),
     gap_to_A_pct |-> Round(r.gap_to_A_pct, 100),
     gap_to_B_pct |-> Round(r.gap_to_B_pct, 100),
     gap_to_C_pct |-> Round(r.gap_to_C_pct, 100),
     touch_env_lower |-> Le(r.close, r.env_lower)]
\* build_s1_snapshot from the display columns on.
S1Display(snap) ==
    LET sorted == SortValues(snap)
    IN [k \in 1..Len(sorted) |-> OutCols(sorted[k])]

\* Faulty variant of build_s1_snapshot (below): the snapshot is taken first
\* and the market-cap filter applied to it.
build_s1_snapshot_latest_first(df, ma_window) ==
    LET df_i == enrich_with_envelope(df, ma_window)
        snap == latest_snapshot(df_i)
        df_f == filter_by_market_cap(snap)
    IN S1Display(s1_compute_levels(df_f))
build_s1_snapshot(df, ma_window) ==
    LET df_i == enrich_with_envelope(df, ma_window)
        df_f == filter_by_market_cap(df_i)
        snap == latest_snapshot(df_f)
    IN S1Display(s1_compute_levels(snap))

\* The frames the functions are called with.  Rows carry their place in the
\* file as date.
MaxRows == 4
MaxWindow == 2
MaxCapRows == 3
MaxSnapRows == 2
SeqsUpTo(S, n) == UNION {[1..k -> S] : k \in 0..n}
Dated(q) == [i \in 1..Len(q) |-> [date |-> i] @@ q[i]]
Closes == {Num(100), Num(102)}
PriceFrames ==
    {Dated(q) : q \in SeqsUpTo([ticker : Tickers, close : Closes], MaxRows)}
Windows == 1..MaxWindow
Caps == {Num(12), Num(13), Num(49), Num(50), NaN}
CapFrames ==
    {Dated(q) : q \in SeqsUpTo([ticker : {"AAA"}, market_cap : Caps], MaxCapRows)}
EnvLowers == {NaN, Num(8), Frac(7968, 100), Num(0), Num(-4)}
SnapFrames ==
    {Dated(q) : q \in SeqsUpTo([ticker : {"AAA"}, close : {Num(97), Num(10)},
                                 env_lower : EnvLowers], MaxSnapRows)}

\* Frames in any date order, with dates that repeat; close tells the rows
\* apart.
MaxSeries == 4
Numbered(q) == [i \in 1..Len(q) |-> [close |-> Num(100 + i)] @@ q[i]]
SeriesFrames ==
    {Numbered(q) : q \in SeqsUpTo([ticker : Tickers, date : Dates], MaxSeries)}

\* Frames as load_prices_csv hands them to build_s1_snapshot: sorted by
\* ticker and date; a date can repeat.
MaxBars == 3
BarCaps == {Num(12), Num(13), Num(50)}
TickerRank(t) == CHOOSE k \in 1..Len(TickerSeq) : TickerSeq[k] = t
IsSortedFrame(q) ==
    \A i \in 1..(Len(q) - 1) :
        \/ TickerRank(q[i].ticker) < TickerRank(q[i + 1].ticker)
        \/ (q[i].ticker = q[i + 1].ticker /\ q[i].date <= q[i + 1].date)
BarFrames ==
    {Numbered(q) :
        q \in {f \in SeqsUpTo([ticker : Tickers, date : Dates,
                                market_cap : BarCaps], MaxBars) :
                  IsSortedFrame(f)}}

InitCore ==
    /\ db = EmptyStore
    /\ conn = EmptyStore
    /\ run = [op |-> "init"]
    /\ nruns = 0
    /\ leaderDays = [t \in Tickers |-> {}]
    /\ proc = [p \in Procs |-> [pc |-> "idle"]]
    /\ probe = [pc |-> "none"]
    /\ calc \in {[op |-> "call", fn |-> "enrich_with_envelope", df |-> f,
                   ma_window |-> w] : f \in PriceFrames, w \in Windows}
              \cup {[op |-> "call", fn |-> "filter_by_market_cap", df |-> f] :
                       f \in CapFrames}
              \cup {[op |-> "call", fn |-> "s1_compute_levels", df |-> f] :
                       f \in SnapFrames}
              \cup {[op |-> "call", fn |-> "latest_snapshot", df |-> f] :
                       f \in SeriesFrames}
              \cup {[op |-> "call", fn |-> "build_s1_snapshot", df |-> f,
                      ma_window |-> w] : f \in BarFrames, w \in Windows}

Enrich ==
    /\ calc.op = "call" /\ calc.fn = "enrich_with_envelope"
    /\ calc' = [op |-> "return", fn |-> calc.fn, df |-> calc.df,
                ma_window |-> calc.ma_window,
                out |-> enrich_with_envelope(calc.df, calc.ma_window)]
    /\ UNCHANGED <<db, conn, run, nruns, leaderDays, proc, probe>>

FilterByMarketCap ==
    /\ calc.op = "call" /\ calc.fn = "filter_by_market_cap"
    /\ calc' = [op |-> "return", fn |-> calc.fn, df |-> calc.df,
                out |-> filter_by_market_cap(calc.df)]
    /\ UNCHANGED <<db, conn, run, nruns, leaderDays, proc, probe>>

ComputeLevels ==
    /\ calc.op = "call" /\ calc.fn = "s1_compute_levels"
    /\ calc' = [op |-> "return", fn |-> calc.fn, df |-> calc.df,
                out |-> s1_compute_levels(calc.df)]
    /\ UNCHANGED <<db, conn, run, nruns, leaderDays, proc, probe>>

LatestSnapshot ==
    /\ calc.op = "call" /\ calc.fn = "latest_snapshot"
    /\ calc' = [op |-> "return", fn |-> calc.fn, df |-> calc.df,
                out |-> latest_snapshot(calc.df)]
    /\ UNCHANGED <<db, conn, run, nruns, leaderDays, proc, probe>>

BuildS1Snapshot ==
    /\ calc.op = "call" /\ calc.fn = "build_s1_snapshot"
    /\ calc' = [op |-> "return", fn |-> calc.fn, df |-> calc.df,
                ma_window |-> calc.ma_window,
                out |-> build_s1_snapshot(calc.df, calc.ma_window)]
    /\ UNCHANGED <<db, conn, run, nruns, leaderDays, proc, probe>>

NextCore ==
    \/ Enrich \/ FilterByMarketCap \/ ComputeLevels \/ LatestSnapshot
    \/ BuildS1Snapshot

SpecCore == InitCore /\ [][NextCore]_vars

\* ------------------------------------------------------ s1_krx_envelope.py
\* The four position labels of label_stage, from the top band down, named
\* by the band; the empty string stands for no label.
ABOVE_A == "above-A"
BETWEEN_A_B == "between-A-B"
BETWEEN_B_C == "between-B-C"
BELOW_C == "below-C"
Stages == {ABOVE_A, BETWEEN_A_B, BETWEEN_B_C, BELOW_C}

\* Faulty variant of label_stage (below): a price on a threshold falls into
\* the band under it.
label_stage_strict(price, b1, b2, b3) ==
    IF IsNaN(price) \/ IsNaN(b1) \/ IsNaN(b2) \/ IsNaN(b3) THEN ""
    ELSE IF Less(b1, price) THEN ABOVE_A
    ELSE IF Less(b2, price) THEN BETWEEN_A_B
    ELSE IF Less(b3, price) THEN BETWEEN_B_C
    ELSE BELOW_C
label_stage(price, b1, b2, b3) ==
    IF IsNaN(price) \/ IsNaN(b1) \/ IsNaN(b2) \/ IsNaN(b3) THEN ""
    ELSE IF Ge(price, b1) THEN ABOVE_A
    ELSE IF Ge(price, b2) THEN BETWEEN_A_B
    ELSE IF Ge(price, b3) THEN BETWEEN_B_C
    ELSE BELOW_C

\* f"{pct:.1f}%": the number of tenths nearest to pct, the even one of two
\* that are equally near; "inf%" and "nan%" for what is not a number.  The
\* empty string is [kind |-> "", tenths |-> 0].
FracAbs(x) == [n |-> Abs(x.n), d |-> x.d]
Fmt1(pct) ==
    IF IsNaN(pct) THEN [kind |-> "nan%", tenths |-> 0]
    ELSE IF pct.d = 0 THEN [kind |-> "inf%", tenths |-> 0]
    ELSE LET q == (10 * Abs(pct.n)) \div pct.d
             r == (10 * Abs(pct.n)) % pct.d
             up == 2 * r > pct.d \/ (2 * r = pct.d /\ q % 2 = 1)
         IN [kind |-> "%", tenths |-> Sign(pct.n) * (IF up THEN q + 1 ELSE q)]
NoText == [kind |-> "", tenths |-> 0]

\* Faulty variant of gap_to_next (below): the target is the threshold above
\* the band.
gap_to_next_upper(price, stage, b1, b2, b3) ==
    IF IsNaN(price) \/ IsNaN(b1) \/ IsNaN(b2) \/ IsNaN(b3) \/ stage = ""
    THEN NoText
    ELSE LET target == IF stage \in {ABOVE_A, BETWEEN_A_B} THEN b1
                       ELSE IF stage = BETWEEN_B_C THEN b2
                       ELSE b3
         IN Fmt1(FracAbs(Mul(Div(Sub(target, price), target), Num(100))))
gap_to_next(price, stage, b1, b2, b3) ==
    IF IsNaN(price) \/ IsNaN(b1) \/ IsNaN(b2) \/ IsNaN(b3) \/ stage = ""
    THEN NoText
    ELSE LET target == IF stage = ABOVE_A THEN b1
                       ELSE IF stage = BETWEEN_A_B THEN b2
                       ELSE b3
         IN Fmt1(FracAbs(Mul(Div(Sub(target, price), target), Num(100))))

\* The prices and buy lines the two functions are called with.
Prices == {Num(70), Num(81), Num(85), Num(90), Num(95), Num(100), Num(110), NaN}
BuyLines == {Num(81), Num(90), Num(100), NaN}

InitLabel ==
    /\ db = EmptyStore
    /\ conn = EmptyStore
    /\ run = [op |-> "init"]
    /\ nruns = 0
    /\ leaderDays = [t \in Tickers |-> {}]
    /\ proc = [p \in Procs |-> [pc |-> "idle"]]
    /\ probe = [pc |-> "none"]
    /\ calc \in {[op |-> "call", fn |-> "label_stage", price |-> x,
                   b1 |-> a, b2 |-> b, b3 |-> c] :
                     x \in Prices, a \in BuyLines, b \in BuyLines, c \in BuyLines}
              \cup {[op |-> "call", fn |-> "gap_to_next", price |-> x,
                      stage |-> st, b1 |-> a, b2 |-> b, b3 |-> c] :
                     x \in Prices, st \in Stages \cup {""},
                     a \in BuyLines, b \in BuyLines, c \in BuyLines}

LabelStage ==
    /\ calc.op = "call" /\ calc.fn = "label_stage"
    /\ calc' = [calc EXCEPT !.op = "return"] @@
               [out |-> label_stage(calc.price, calc.b1, calc.b2, calc.b3)]
    /\ UNCHANGED <<db, conn, run, nruns, leaderDays, proc, probe>>

GapToNext ==
    /\ calc.op = "call" /\ calc.fn = "gap_to_next"
    /\ calc' = [calc EXCEPT !.op = "return"] @@
               [out |-> gap_to_next(calc.price, calc.stage, calc.b1, calc.b2,
                                   calc.b3)]
    /\ UNCHANGED <<db, conn, run, nruns, leaderDays, proc, probe>>

NextLabel == LabelStage \/ GapToNext

SpecLabel == InitLabel /\ [][NextLabel]_vars

\* ----------------------------------------------------------- rest_probe.py
\* What a POST can end in: an exception of requests (no response), or a
\* response with a status code; the body of a 200 is JSON of a value, JSON
\* null, or not JSON.
Outcomes ==
    {[exc |-> TRUE, code |-> 0, body |-> ""]}
    \cup {[exc |-> FALSE, code |-> 200, body |-> b] : b \in {"json", "null", "garbage"}}
    \cup {[exc |-> FALSE, code |-> c, body |-> ""] : c \in {404, 500, 599, 600}}

\* None as last_resp and as data; the data of the k-th response.
NoResp == [attempt |-> 0, code |-> 0]
NoData == [src |-> "none", id |-> 0]
\* resp.json() with `except Exception: data = None`: None for a body that is
\* not JSON and for JSON null.
JsonOf(o, k) == IF o.body = "json" THEN [src |-> "api", id |-> k] ELSE NoData

\* The default of retry_intervals, in milliseconds.
DefaultRetryIntervals == <<500, 1000, 2000>>
RetryIntervalsSet == {<<>>, <<500>>, DefaultRetryIntervals, <<2000, 500>>}

\* `return data, resp, status`; a call from main goes on in main.
Return(q, data, resp, status) ==
    [q EXCEPT !.pc = IF q.caller = "main" THEN "main" ELSE "returned",
              !.ret = [data |-> data, resp |-> resp, status |-> status]]

\* Faulty variants of NextWait (below) and of AfterPost (below): the waits
\* taken from the end of the list; every success reported as live; every
\* response that is not a 200 retried.
NextWaitReversed(q) == q.retry_intervals[Len(q.retry_intervals) - Len(q.slept)]
AfterPostAlwaysLive(q, o) ==
    LET k == q.attempts + 1
        resp == [attempt |-> k, code |-> o.code]
        last == IF o.exc THEN q.last_resp ELSE resp
        data == IF ~o.exc /\ o.code = 200 THEN JsonOf(o, k) ELSE NoData
        r == [q EXCEPT !.attempts = k, !.outcomes = Append(@, o),
                       !.last_resp = last]
    IN IF ~o.exc /\ o.code = 200 /\ data # NoData
       THEN Return(r, data, resp, "live")
       ELSE IF ~o.exc /\ o.code # 200 /\ ~(500 <= o.code /\ o.code < 600)
       THEN Return(r, NoData, resp, "fail")
       ELSE IF Len(r.slept) < Len(r.retry_intervals)
       THEN [r EXCEPT !.pc = "sleep"]
       ELSE Return(r, NoData, last, "fail")
AfterPostRetryAll(q, o) ==
    LET k == q.attempts + 1
        resp == [attempt |-> k, code |-> o.code]
        last == IF o.exc THEN q.last_resp ELSE resp
        data == IF ~o.exc /\ o.code = 200 THEN JsonOf(o, k) ELSE NoData
        r == [q EXCEPT !.attempts = k, !.outcomes = Append(@, o),
                       !.last_resp = last]
    IN IF ~o.exc /\ o.code = 200 /\ data # NoData
       THEN Return(r, data, resp, IF k = 1 THEN "live" ELSE "retry")
       ELSE IF Len(r.slept) < Len(r.retry_intervals)
       THEN [r EXCEPT !.pc = "sleep"]
       ELSE Return(r, NoData, last, "fail")

\* The argument of the time.sleep that comes next in the retry loop.
NextWait(q) == q.retry_intervals[Len(q.slept) + 1]

\* fetch_rank from one requests.post to the next statement that waits or
\* returns: the try block of the first attempt (k = 1) or of the loop body
\* (k > 1), with outcome o of the POST.
AfterPost(q, o) ==
    LET k == q.attempts + 1
        resp == [attempt |-> k, code |-> o.code]
        last == IF o.exc THEN q.last_resp ELSE resp
        data == IF ~o.exc /\ o.code = 200 THEN JsonOf(o, k) ELSE NoData
        r == [q EXCEPT !.attempts = k, !.outcomes = Append(@, o),
                       !.last_resp = last]
    IN IF ~o.exc /\ o.code = 200 /\ data # NoData
       THEN Return(r, data, resp, IF k = 1 THEN "live" ELSE "retry")
       ELSE IF ~o.exc /\ o.code # 200 /\ ~(500 <= o.code /\ o.code < 600)
       THEN Return(r, NoData, resp, "fail")
       ELSE IF Len(r.slept) < Len(r.retry_intervals)
       THEN [r EXCEPT !.pc = "sleep"]
       ELSE Return(r, NoData, last, "fail")

\* The cache directory: the *.json files by name, each with its mtime and
\* what json.load gives for it: a value, None for JSON null, or an
\* exception.
Garbage == [src |-> "garbage", id |-> 0]
CacheOf(j) == [src |-> "file", id |-> j]
TodayFile == "ka10031_today.json"
Directories ==
    { <<>>,
      [n \in {"a.json"} |-> [mtime |-> 1, content |-> CacheOf(1)]],
      [n \in {"a.json"} |-> [mtime |-> 1, content |-> Garbage]],
      [n \in {"a.json", "b.json"} |->
          IF n = "a.json" THEN [mtime |-> 1, content |-> CacheOf(1)]
          ELSE [mtime |-> 2, content |-> CacheOf(2)]],
      [n \in {"a.json", "b.json"} |->
          IF n = "a.json" THEN [mtime |-> 2, content |-> CacheOf(1)]
          ELSE [mtime |-> 1, content |-> CacheOf(2)]],
      [n \in {"a.json", "b.json"} |->
          IF n = "a.json" THEN [mtime |-> 1, content |-> CacheOf(1)]
          ELSE [mtime |-> 2, content |-> Garbage]],
      [n \in {"a.json", "b.json"} |->
          IF n = "a.json" THEN [mtime |-> 1, content |-> CacheOf(1)]
          ELSE [mtime |-> 2, content |-> NoData]],
      [n \in {"a.json", TodayFile} |->
          IF n = "a.json" THEN [mtime |-> 1, content |-> CacheOf(1)]
          ELSE [mtime |-> 2, content |-> CacheOf(2)]] }

RECURSIVE MaxMtime(_, _)
MaxMtime(files, names) ==
    IF names = {} THEN 0
    ELSE LET n == CHOOSE n \in names : TRUE
             m == MaxMtime(files, names \ {n})
         IN IF files[n].mtime > m THEN files[n].mtime ELSE m

\* save_json(data, out_path): the file written anew, the newest of the
\* directory.
save_json(files, data, out_path) ==
    [n \in (DOMAIN files) \cup {out_path} |->
        IF n = out_path
        THEN [mtime |-> MaxMtime(files, DOMAIN files) + 1, content |-> data]
        ELSE files[n]]

\* Faulty variant of load_latest_cache (below): the oldest file that loads.
RECURSIVE load_oldest_cache(_, _)
load_oldest_cache(files, names) ==
    IF names = {} THEN [data |-> NoData, path |-> ""]
    ELSE LET n == CHOOSE n \in names :
                     \A m \in names : files[n].mtime <= files[m].mtime
         IN IF files[n].content # Garbage
            THEN [data |-> files[n].content, path |-> n]
            ELSE load_oldest_cache(files, names \ {n})
\* load_latest_cache(out_dir): the files from the newest to the oldest, the
\* first whose json.load raises nothing; `names` are the files not tried
\* yet.
RECURSIVE load_latest_cache(_, _)
load_latest_cache(files, names) ==
    IF names = {} THEN [data |-> NoData, path |-> ""]
    ELSE LET n == CHOOSE n \in names :
                     \A m \in names : files[m].mtime <= files[n].mtime
         IN IF files[n].content # Garbage
            THEN [data |-> files[n].content, path |-> n]
            ELSE load_latest_cache(files, names \ {n})

\* A call of fetch_rank by a client with retry_intervals of its choice, or a
\* run of main, which calls it with the default, on a cache directory.
InitProbe ==
    /\ db = EmptyStore
    /\ conn = EmptyStore
    /\ run = [op |-> "init"]
    /\ nruns = 0
    /\ leaderDays = [t \in Tickers |-> {}]
    /\ proc = [p \in Procs |-> [pc |-> "idle"]]
    /\ calc = [op |-> "none"]
    /\ \E c \in {"client", "main"} :
       \E ri \in (IF c = "main" THEN {DefaultRetryIntervals} ELSE RetryIntervalsSet) :
       \E dir \in (IF c = "main" THEN Directories ELSE {<<>>}) :
          probe = [pc |-> "post", caller |-> c, retry_intervals |-> ri,
                   attempts |-> 0, slept |-> <<>>, outcomes |-> <<>>,
                   last_resp |-> NoResp,
                   ret |-> [data |-> NoData, resp |-> NoResp, status |-> ""],
                   dir0 |-> dir, files |-> dir, cache_read |-> FALSE,
                   exit |-> -1]

\* One requests.post (it ends in at most its 15 s timeout) and what
\* fetch_rank does with it.
Post(o) ==
    /\ probe.pc = "post"
    /\ probe' = AfterPost(probe, o)
    /\ UNCHANGED <<db, conn, run, nruns, leaderDays, proc, calc>>

\* time.sleep(sec) at the head of the retry loop.
Sleep ==
    /\ probe.pc = "sleep"
    /\ probe' = [probe EXCEPT !.slept = Append(@, NextWait(probe)),
                              !.pc = "post"]
    /\ UNCHANGED <<db, conn, run, nruns, leaderDays, proc, calc>>

\* main after fetch_rank returned: save the data, or fall back to the cache,
\* or SystemExit(2).
MainAfterFetch ==
    /\ probe.pc = "main"
    /\ probe' =
         IF probe.ret.data # NoData
         THEN [probe EXCEPT !.files = save_json(@, probe.ret.data, TodayFile),
                            !.exit = 0, !.pc = "exited"]
         ELSE LET c == load_latest_cache(probe.files, DOMAIN probe.files)
              IN IF c.data # NoData
                 THEN [probe EXCEPT !.files = save_json(@, c.data, TodayFile),
                                    !.cache_read = TRUE,
                                    !.exit = 0, !.pc = "exited"]
                 ELSE [probe EXCEPT !.cache_read = TRUE,
                                    !.exit = 2, !.pc = "exited"]
    /\ UNCHANGED <<db, conn, run, nruns, leaderDays, proc, calc>>

NextProbe ==
    \/ \E o \in Outcomes : Post(o)
    \/ Sleep
    \/ MainAfterFetch

SpecProbe == InitProbe /\ [][NextProbe]_vars

\* Every POST ends and every sleep ends, so a step that can be taken is
\* taken.
SpecProbeFair == SpecProbe /\ WF_vars(NextProbe)

\* ------------------------------------------------------------ properties
\* What the last step was.
Replayed == run'.op = "replay" /\ nruns' = nruns + 1
Aborted == run'.op = "abort" /\ nruns' = nruns + 1
Upserted(table) == run'.op = "upsert" /\ run'.table = table /\ nruns' = nruns + 1
Raised == run'.op = "raise" /\ nruns' = nruns + 1

Leaders(df) == split_leaders_and_universe(df).leaders
StoredCount(store, t) ==
    IF t \in DOMAIN store[WU] THEN store[WU][t].times_above_5k ELSE 0
StoredLastSeen(store, t) ==
    IF t \in DOMAIN store[WU] THEN store[WU][t].last_seen ELSE NULL

\* The one row of the batch under key k, when the batch has exactly one.
OnlyRow(table, rows, i) ==
    \A j \in 1..Len(rows) : j # i => Key(table, rows[j]) # Key(table, rows[i])

\* C1: for every ticker of the batch, times_above_5k after
\* increment_times_above_5k is the stored value before it (0 without a row)
\* plus 1 if the ticker is in today's leader set, plus 0 otherwise.
C1_CountIsStoredPlusLeader ==
    [][Replayed =>
         \A t \in DOMAIN run'.df :
            db'[WU][t].times_above_5k =
               StoredCount(db, t) + (IF t \in Leaders(run'.df) THEN 1 ELSE 0)]_vars

\* A leader counted up from 1 to 2 next to a non-leader whose 1 stayed 1.
C1_Witness ==
    /\ run.op = "replay"
    /\ \E t \in Leaders(run.df) : db[WU][t].times_above_5k = 2
    /\ \E t \in (DOMAIN run.df) \ Leaders(run.df) : db[WU][t].times_above_5k = 1

\* C2: over serial runs a ticker's stored times_above_5k never decreases and
\* is never reset; a stored row never disappears.
C2_CountNeverDecreases ==
    [][\A t \in DOMAIN db[WU] :
          /\ t \in DOMAIN db'[WU]
          /\ db'[WU][t].times_above_5k >= db[WU][t].times_above_5k]_vars

\* A ticker counted twice is in the batch again, not a leader, and keeps 2.
C2_Witness ==
    /\ run.op = "replay"
    /\ \E t \in (DOMAIN run.df) \ Leaders(run.df) :
          /\ db[WU][t].times_above_5k = 2
          /\ leaderDays[t] # {}

\* C3: after any runs from the empty store (days replayed or out of order
\* included) times_above_5k is the number of distinct dates on which the
\* ticker was a leader.
C3_CountIsDistinctLeaderDays ==
    \A t \in Tickers : StoredCount(db, t) = Cardinality(leaderDays[t])

\* C4: a ticker of the batch that is not a leader today keeps the last_seen
\* stored before the run (NULL without a row); last_seen changes only in
\* runs in which the ticker is a leader.
C4_LastSeenKeptWhenNotLeader ==
    [][Replayed =>
         \A t \in DOMAIN run'.df :
            t \notin Leaders(run'.df) =>
               db'[WU][t].last_seen = StoredLastSeen(db, t)]_vars

\* C5: leader on day 1 and day 3, not on day 2, three daily runs from the
\* empty store: times_above_5k is 1, 1, 2 and last_seen is day 1, day 1,
\* day 3 after runs 1, 2, 3.
C5_OneOneTwo ==
    \A t \in Tickers :
       /\ (nruns = 1 /\ leaderDays[t] = {1}) =>
             (db[WU][t].times_above_5k = 1 /\ db[WU][t].last_seen = 1)
       /\ (nruns = 2 /\ leaderDays[t] = {1}) =>
             (db[WU][t].times_above_5k = 1 /\ db[WU][t].last_seen = 1)
       /\ (nruns = 3 /\ leaderDays[t] = {1, 3}) =>
             (db[WU][t].times_above_5k = 2 /\ db[WU][t].last_seen = 3)

\* After the third run: AAA led on days 1 and 3 and was listed, below the
\* threshold, on day 2.
C5_Witness ==
    /\ nruns = 3
    /\ leaderDays["AAA"] = {1, 3}
    /\ <<2, "AAA">> \in DOMAIN db[PD]
    /\ db[WU]["AAA"].times_above_5k = 2
    /\ db[WU]["AAA"].last_seen = 3

\* C6: an upsert into watch_universe of a ticker that has a row overwrites
\* name, market, last_seen, times_above_5k and last_turnover with the incoming
\* values, and keeps the stored first_seen unless that is NULL, when it takes
\* the incoming one.
C6_WatchUniverseMerge ==
    [][Upserted(WU) =>
         \A i \in 1..Len(run'.rows) :
            LET r == run'.rows[i]
                t == r.ticker
            IN (OnlyRow(WU, run'.rows, i) /\ t \in DOMAIN conn[WU]) =>
                  /\ conn'[WU][t].name = r.name
                  /\ conn'[WU][t].market = r.market
                  /\ conn'[WU][t].last_seen = r.last_seen
                  /\ conn'[WU][t].times_above_5k = r.times_above_5k
                  /\ conn'[WU][t].last_turnover = r.last_turnover
                  /\ conn'[WU][t].first_seen =
                        (IF conn[WU][t].first_seen # NULL
                         THEN conn[WU][t].first_seen ELSE r.first_seen)]_vars

\* The row of a one-row upsert is stored with every column as given but
\* first_seen, which is another date: the ticker had a row.
C6_Witness ==
    /\ run.op = "upsert" /\ run.table = WU /\ Len(run.rows) = 1
    /\ LET r == run.rows[1]
       IN /\ r.first_seen # NULL
          /\ db[WU][r.ticker].first_seen \notin {NULL, r.first_seen}
          /\ db[WU][r.ticker].name = r.name
          /\ db[WU][r.ticker].times_above_5k = r.times_above_5k

\* C7 as claimed: after a watch_universe update the stored first_seen is the
\* earliest of the stored and the incoming first_seen.
C7_FirstSeenIsMinimum ==
    [][Upserted(WU) =>
         \A i \in 1..Len(run'.rows) :
            LET r == run'.rows[i]
                t == r.ticker
            IN (/\ OnlyRow(WU, run'.rows, i)
                /\ t \in DOMAIN conn[WU]
                /\ conn[WU][t].first_seen # NULL
                /\ r.first_seen # NULL) =>
                  conn'[WU][t].first_seen =
                     (IF conn[WU][t].first_seen <= r.first_seen
                      THEN conn[WU][t].first_seen ELSE r.first_seen)]_vars

\* C7 as amended: a stored first_seen that is set never changes, whatever
\* first_seen later updates carry (first write wins).
C7_FirstSeenNeverChanges ==
    [][\A t \in DOMAIN db[WU] :
          db[WU][t].first_seen # NULL =>
             /\ t \in DOMAIN db'[WU]
             /\ db'[WU][t].first_seen = db[WU][t].first_seen]_vars

\* An update carried day 1 for a ticker whose stored first_seen is day 2, and
\* day 2 stayed.
C7_Witness ==
    /\ run.op = "upsert" /\ run.table = WU /\ Len(run.rows) = 1
    /\ run.rows[1].first_seen = 1
    /\ db[WU][run.rows[1].ticker].first_seen = 2

\* C8: an upsert into leaders_history under an existing (date, ticker)
\* overwrites every non-key column with the incoming value but first_seen,
\* which becomes the smaller of the stored and the incoming date.
C8_LeadersHistoryMerge ==
    [][Upserted(LH) =>
         \A i \in 1..Len(run'.rows) :
            LET r == run'.rows[i]
                k == Key(LH, r)
            IN (OnlyRow(LH, run'.rows, i) /\ k \in DOMAIN conn[LH]) =>
                  /\ conn'[LH][k].name = r.name
                  /\ conn'[LH][k].market = r.market
                  /\ conn'[LH][k].close = r.close
                  /\ conn'[LH][k].volume = r.volume
                  /\ conn'[LH][k].turnover = r.turnover
                  /\ conn'[LH][k].mktcap = r.mktcap
                  /\ conn'[LH][k].last_seen = r.last_seen
                  /\ (conn[LH][k].first_seen # NULL /\ r.first_seen # NULL) =>
                        /\ conn'[LH][k].first_seen <= conn[LH][k].first_seen
                        /\ conn'[LH][k].first_seen <= r.first_seen
                        /\ conn'[LH][k].first_seen \in
                              {conn[LH][k].first_seen, r.first_seen}]_vars

\* A one-row upsert carrying first_seen day 2 left the stored day 1 and
\* replaced the other columns.
C8_Witness ==
    /\ run.op = "upsert" /\ run.table = LH /\ Len(run.rows) = 1
    /\ LET r == run.rows[1]
       IN /\ r.first_seen = 2
          /\ db[LH][Key(LH, r)].first_seen = 1
          /\ db[LH][Key(LH, r)].name = r.name
          /\ db[LH][Key(LH, r)].last_seen = r.last_seen

\* C9: a call of upsert_many that fails partway commits none of its rows, and
\* none of them is committed later: a later call that succeeds commits its
\* own rows and nothing else.
C9_FailedCallCommitsNothing ==
    [][/\ Raised => db' = db
       /\ \A table \in Tables :
             Upserted(table) => db' = executemany(db, table, run'.rows)]_vars

\* C10: a run of run_replay commits the day's rows to all four tables or to
\* none: an aborted run leaves the committed store as it was.
C10_RunAllOrNothing ==
    [][/\ Aborted => db' = db
       /\ Replayed =>
             \A t \in DOMAIN run'.df :
                /\ <<run'.date, t>> \in DOMAIN db'[PD]
                /\ t \in DOMAIN db'[WU]
                /\ t \in Leaders(run'.df) =>
                      /\ <<run'.date, t>> \in DOMAIN db'[LH]
                      /\ <<t, run'.date>> \in DOMAIN db'[LE]]_vars

\* The rows of a batch under key k, by position; the last of them.
RowsUnder(table, rows, k) == {i \in 1..Len(rows) : Key(table, rows[i]) = k}
LastUnder(table, rows, k) ==
    CHOOSE i \in RowsUnder(table, rows, k) :
        \A j \in RowsUnder(table, rows, k) : j <= i

\* C11: a call of upsert_many on prices_daily, leaders_events or
\* leaders_history that repeats the rows of the call just before it leaves
\* the table, in the connection and on disk, as the first call left it.
C11_SecondCallChangesNothing ==
    [][\A table \in {PD, LE, LH} :
          (Upserted(table) /\ run'.again) => (conn' = conn /\ db' = db)]_vars

\* The same two rows of one leaders_history key, with different first_seen,
\* were upserted twice in a row.
C11_Witness ==
    /\ run.op = "upsert" /\ run.table = LH /\ run.again
    /\ Len(run.rows) = 2
    /\ Key(LH, run.rows[1]) = Key(LH, run.rows[2])
    /\ run.rows[1].first_seen # run.rows[2].first_seen
    /\ Key(LH, run.rows[1]) \in DOMAIN db[LH]

\* C12: after a call of upsert_many on prices_daily or leaders_events the
\* table holds one row for each key it held or the batch carried, and no
\* other; the row of a key of the batch is the last row the batch carried
\* for it, the row of any other key is as it was; a batch that is not empty
\* is on disk when the call returns.
C12_OneRowPerKeyLastWins ==
    [][\A table \in {PD, LE} :
          Upserted(table) =>
             /\ DOMAIN conn'[table] =
                    DOMAIN conn[table] \cup
                    {Key(table, run'.rows[i]) : i \in 1..Len(run'.rows)}
             /\ \A k \in DOMAIN conn'[table] :
                    IF RowsUnder(table, run'.rows, k) = {}
                    THEN conn'[table][k] = conn[table][k]
                    ELSE conn'[table][k] =
                            run'.rows[LastUnder(table, run'.rows, k)]
             /\ Len(run'.rows) > 0 => db'[table] = conn'[table]]_vars

\* A batch carried two different rows for one prices_daily key, the table
\* holds the second of them, and a second key kept its row.
C12_Witness ==
    /\ run.op = "upsert" /\ run.table = PD /\ Len(run.rows) = 2
    /\ Key(PD, run.rows[1]) = Key(PD, run.rows[2])
    /\ run.rows[1] # run.rows[2]
    /\ db[PD][Key(PD, run.rows[2])] = run.rows[2]
    /\ Cardinality(DOMAIN db[PD]) = 2

\* C13: upsert_many with an empty batch returns 0, raises nothing and leaves
\* every table as it was, in the connection and on disk, whatever the table
\* name.
C13_EmptyBatchIsNoOp ==
    [][/\ (run'.op = "upsert" /\ nruns' = nruns + 1 /\ Len(run'.rows) = 0) =>
             (run'.ret = 0 /\ db' = db /\ conn' = conn)
       /\ (run'.op \in {"raise", "keyerror"} /\ nruns' = nruns + 1) =>
             Len(run'.rows) > 0]_vars

\* An empty batch was upserted on a connection holding rows of a failed call,
\* and they stayed uncommitted.
C13_Witness ==
    /\ run.op = "upsert" /\ Len(run.rows) = 0 /\ run.ret = 0
    /\ run.table \in Tables
    /\ conn[run.table] # db[run.table]

\* C14: a run of run_replay whose CSV does not hold exactly the one date
\* test_date raises and leaves all four tables as they were.
C14_MismatchWritesNothing ==
    [][(run'.op = "mismatch" /\ nruns' = nruns + 1) =>
          (db' = db /\ conn' = conn)]_vars

\* A run was refused for its dates on a store that holds rows of an earlier
\* run.
C14_Witness ==
    /\ run.op = "mismatch"
    /\ DOMAIN db[PD] # {}
    /\ DOMAIN db[WU] # {}

\* The earliest date under which leaders_history holds a row of ticker t.
DatesOf(tbl, t) == {k[1] : k \in {x \in DOMAIN tbl : x[2] = t}}
EarliestDate(tbl, t) ==
    CHOOSE d \in DatesOf(tbl, t) : \A e \in DatesOf(tbl, t) : d <= e

\* C15: an upsert into leaders_history whose rows for a ticker all carry
\* dates after the ticker's earliest stored date leaves the first_seen of
\* the row of that earliest date as it was.
C15_EarliestRowKeepsFirstSeen ==
    [][Upserted(LH) =>
         \A t \in Tickers :
            (/\ DatesOf(conn[LH], t) # {}
             /\ \A i \in 1..Len(run'.rows) :
                    run'.rows[i].ticker = t =>
                       run'.rows[i].date > EarliestDate(conn[LH], t)) =>
               LET k == <<EarliestDate(conn[LH], t), t>>
               IN /\ k \in DOMAIN conn'[LH]
                  /\ conn'[LH][k].first_seen = conn[LH][k].first_seen]_vars

\* A row of day 2 was upserted for a ticker whose row of day 1 was stored by
\* an earlier call with first_seen day 1, and that first_seen stayed.
C15_Witness ==
    /\ run.op = "upsert" /\ run.table = LH /\ Len(run.rows) = 1
    /\ run.rows[1].date = 2 /\ run.rows[1].ticker = "AAA"
    /\ run.rows[1].first_seen = 2
    /\ <<1, "AAA">> \in DOMAIN db[LH]
    /\ db[LH][<<1, "AAA">>].first_seen = 1
    /\ <<2, "AAA">> \in DOMAIN db[LH]

\* C16: when two runs work on the same store side by side no increment is
\* lost: once both are done, from the empty store, every ticker's
\* times_above_5k is the number of the runs that had it in their leader set.
C16_NoIncrementLost ==
    (\A p \in Procs : proc[p].pc = "done") =>
        \A t \in Tickers :
            StoredCount(db, t) =
                Cardinality({p \in Procs : t \in Leaders(proc[p].df)})

\* What the last call of a function of s_core.py was.
Returned(fn) == calc.op = "return" /\ calc.fn = fn

\* The rows of the frame up to row i that are of row i's ticker, and the sum
\* of the closes of a set of rows.
SameTickerUpTo(df, i) == {j \in 1..i : df[j].ticker = df[i].ticker}
RECURSIVE SumCloses(_, _)
SumCloses(df, T) ==
    IF T = {} THEN Num(0)
    ELSE LET j == CHOOSE j \in T : TRUE
         IN Add(df[j].close, SumCloses(df, T \ {j}))

\* C17: enrich_with_envelope keeps every row; a row that is not at least the
\* window-th of its ticker has ma20, env_upper and env_lower undefined; from
\* the window-th on, ma20 times the window is the sum of the closes of the
\* last `window` rows of that ticker up to the row, other tickers' rows
\* left out.
C17_EnvelopePerTicker ==
    Returned("enrich_with_envelope") =>
        /\ Len(calc.out) = Len(calc.df)
        /\ \A i \in 1..Len(calc.df) :
              LET same == SameTickerUpTo(calc.df, i)
                  o == calc.out[i]
              IN /\ o.ticker = calc.df[i].ticker
                 /\ o.close = calc.df[i].close
                 /\ IF Cardinality(same) < calc.ma_window
                    THEN IsNaN(o.ma20) /\ IsNaN(o.env_upper) /\ IsNaN(o.env_lower)
                    ELSE \E T \in SUBSET same :
                            /\ Cardinality(T) = calc.ma_window
                            /\ \A j \in same \ T : \A k \in T : j < k
                            /\ Mul(o.ma20, Num(calc.ma_window)) =
                                  SumCloses(calc.df, T)

\* A frame with a row of BBB between two rows of AAA, window 2: the third
\* row's ma20 is the mean of the two closes of AAA, the second row's is
\* undefined.
C17_Witness ==
    /\ Returned("enrich_with_envelope") /\ calc.ma_window = 2
    /\ Len(calc.df) = 3
    /\ calc.df[1].ticker = "AAA" /\ calc.df[1].close = Num(100)
    /\ calc.df[2].ticker = "BBB" /\ calc.df[2].close = Num(100)
    /\ calc.df[3].ticker = "AAA" /\ calc.df[3].close = Num(102)
    /\ calc.out[3].ma20 = Num(101)
    /\ IsNaN(calc.out[2].ma20) /\ IsNaN(calc.out[1].env_lower)

\* C18: for every row of the snapshot whose env_lower is a number above 0,
\* s1_compute_levels gives A = env_lower, B = 0.9 A, C = 0.81 A, and
\* C < B < A.
C18_LevelsOfDefinedRow ==
    Returned("s1_compute_levels") =>
        \A i \in 1..Len(calc.df) :
            LET e == calc.df[i].env_lower
                o == calc.out[i]
            IN (e.d > 0 /\ e.n > 0) =>
                  /\ o.s1_A_env_lower = e
                  /\ o.s1_B_minus10pct = Frac(9 * e.n, 10 * e.d)
                  /\ o.s1_C_minus10pct = Frac(81 * e.n, 100 * e.d)
                  /\ Less(o.s1_C_minus10pct, o.s1_B_minus10pct)
                  /\ Less(o.s1_B_minus10pct, o.s1_A_env_lower)

\* A row with env_lower 79.68 got B 71.712 and C 64.5408.
C18_Witness ==
    /\ Returned("s1_compute_levels") /\ Len(calc.out) >= 1
    /\ calc.df[1].env_lower = Frac(7968, 100)
    /\ calc.out[1].s1_A_env_lower = Frac(7968, 100)
    /\ calc.out[1].s1_B_minus10pct = Frac(71712, 1000)
    /\ calc.out[1].s1_C_minus10pct = Frac(645408, 10000)

\* C19: s1_compute_levels returns a row for every row of the snapshot, and
\* for a row whose env_lower is undefined A, B, C and the three gaps are
\* undefined.
C19_UndefinedStaysUndefined ==
    Returned("s1_compute_levels") =>
        /\ Len(calc.out) = Len(calc.df)
        /\ \A i \in 1..Len(calc.df) :
              LET o == calc.out[i]
              IN /\ o.date = calc.df[i].date
                 /\ IsNaN(calc.df[i].env_lower) =>
                       /\ IsNaN(o.s1_A_env_lower)
                       /\ IsNaN(o.s1_B_minus10pct)
                       /\ IsNaN(o.s1_C_minus10pct)
                       /\ IsNaN(o.gap_to_A_pct)
                       /\ IsNaN(o.gap_to_B_pct)
                       /\ IsNaN(o.gap_to_C_pct)

\* A snapshot of a row with env_lower undefined and a row with env_lower 8
\* came back with both rows, the first without levels and gaps, the second
\* with them.
C19_Witness ==
    /\ Returned("s1_compute_levels") /\ Len(calc.df) = 2 /\ Len(calc.out) = 2
    /\ IsNaN(calc.df[1].env_lower)
    /\ IsNaN(calc.out[1].s1_A_env_lower) /\ IsNaN(calc.out[1].gap_to_C_pct)
    /\ calc.df[2].env_lower = Num(8)
    /\ calc.out[2].s1_A_env_lower = Num(8)
    /\ ~IsNaN(calc.out[2].gap_to_A_pct)

\* market_cap is a number and at least k units.
CapAtLeast(x, k) == x.d > 0 /\ x.n >= k * x.d

\* C20: filter_by_market_cap returns, in their order, exactly the rows whose
\* market_cap is at least min_mcap_won, the boundary included, and
\* is_ge_5trn of a returned row is true exactly when its market_cap is at
\* least highlight_mcap_won.
C20_CapFilterAndFlag ==
    Returned("filter_by_market_cap") =>
        LET kept == {i \in 1..Len(calc.df) :
                        CapAtLeast(calc.df[i].market_cap, min_mcap_won.n)}
        IN /\ Len(calc.out) = Cardinality(kept)
           /\ {calc.out[j].date : j \in 1..Len(calc.out)} = kept
           /\ \A j \in 1..Len(calc.out) :
                 /\ calc.out[j].market_cap = calc.df[calc.out[j].date].market_cap
                 /\ calc.out[j].is_ge_5trn =
                       CapAtLeast(calc.out[j].market_cap, highlight_mcap_won.n)
                 /\ \A k \in 1..Len(calc.out) :
                       j < k => calc.out[j].date < calc.out[k].date

\* Of the market caps 1.2, 1.3 and 5.0 trillion won the first was dropped,
\* the second kept without the flag, the third kept with it.
C20_Witness ==
    /\ Returned("filter_by_market_cap") /\ Len(calc.df) = 3
    /\ calc.df[1].market_cap = Num(12)
    /\ calc.df[2].market_cap = Num(13)
    /\ calc.df[3].market_cap = Num(50)
    /\ Len(calc.out) = 2
    /\ calc.out[1].date = 2 /\ ~calc.out[1].is_ge_5trn
    /\ calc.out[2].date = 3 /\ calc.out[2].is_ge_5trn

\* C21: latest_snapshot returns one row for every ticker of its input and no
\* other row; the row of a ticker is a row of the input, no row of the
\* ticker has a later date, and no row of the ticker with the same date
\* stands before it in the input.
C21_OneLatestRowPerTicker ==
    Returned("latest_snapshot") =>
        LET df == calc.df
            out == calc.out
            tickers == {df[i].ticker : i \in 1..Len(df)}
        IN /\ Len(out) = Cardinality(tickers)
           /\ {out[k].ticker : k \in 1..Len(out)} = tickers
           /\ \A k \in 1..Len(out) :
                 \E i \in 1..Len(df) :
                    /\ out[k] = df[i]
                    /\ \A j \in 1..Len(df) :
                          df[j].ticker = df[i].ticker =>
                             /\ df[j].date <= df[i].date
                             /\ df[j].date = df[i].date => i <= j

\* AAA has day 2 twice and then day 1, BBB one row: the snapshot holds the
\* first of the two day-2 rows of AAA and the row of BBB.
C21_Witness ==
    /\ Returned("latest_snapshot") /\ Len(calc.df) = 4
    /\ calc.df[1].ticker = "AAA" /\ calc.df[1].date = 2
    /\ calc.df[2].ticker = "BBB"
    /\ calc.df[3].ticker = "AAA" /\ calc.df[3].date = 2
    /\ calc.df[4].ticker = "AAA" /\ calc.df[4].date = 1
    /\ Len(calc.out) = 2
    /\ calc.out[1] = calc.df[1]
    /\ calc.out[2] = calc.df[2]

\* x >= y for two numbers that are defined and finite.
AtLeast(x, y) == x.d > 0 /\ y.d > 0 /\ x.n * y.d >= y.n * x.d
Defined(x) == x.d > 0

\* C22: with the price and A >= B >= C all defined, label_stage gives
\* above-A for price >= A, else between-A-B for price >= B, else
\* between-B-C for price >= C, else below-C; with the price or a threshold
\* undefined it gives the empty label.
C22_LabelByDescendingComparison ==
    Returned("label_stage") =>
        LET x == calc.price
            A == calc.b1
            B == calc.b2
            C == calc.b3
        IN /\ (~Defined(x) \/ ~Defined(A) \/ ~Defined(B) \/ ~Defined(C)) =>
                 calc.out = ""
           /\ (Defined(x) /\ AtLeast(A, B) /\ AtLeast(B, C)) =>
                 /\ calc.out \in Stages
                 /\ calc.out = ABOVE_A <=> AtLeast(x, A)
                 /\ calc.out = BETWEEN_A_B <=> (~AtLeast(x, A) /\ AtLeast(x, B))
                 /\ calc.out = BETWEEN_B_C <=> (~AtLeast(x, B) /\ AtLeast(x, C))
                 /\ calc.out = BELOW_C <=> ~AtLeast(x, C)

\* A price of 90 with A 100, B 90, C 81 was labelled between-A-B.
C22_Witness ==
    /\ Returned("label_stage")
    /\ calc.price = Num(90)
    /\ calc.b1 = Num(100) /\ calc.b2 = Num(90) /\ calc.b3 = Num(81)
    /\ calc.out = BETWEEN_A_B

\* |t - x| / t * 100 in tenths, for a target t.
DistanceTo(t, x) == Fmt1(FracAbs(Mul(Div(Sub(t, x), t), Num(100))))
\* The call has defined arguments, A >= B >= C, and the stage handed in is
\* the label of the price.
StageOfPrice ==
    /\ Defined(calc.price)
    /\ AtLeast(calc.b1, calc.b2) /\ AtLeast(calc.b2, calc.b3)
    /\ calc.stage = label_stage(calc.price, calc.b1, calc.b2, calc.b3)

\* C23 as stated: the distance is to the threshold that is the upper
\* boundary of the band the price lies in: A above A and between A and B,
\* B between B and C, C below C.
C23_DistanceToUpperBoundary ==
    (Returned("gap_to_next") /\ StageOfPrice) =>
        calc.out = DistanceTo(IF calc.stage \in {ABOVE_A, BETWEEN_A_B} THEN calc.b1
                              ELSE IF calc.stage = BETWEEN_B_C THEN calc.b2
                              ELSE calc.b3, calc.price)

\* C23 as the code has it: the distance is to A above A, to B between A and
\* B, to C between B and C and below C; it is the empty text when the
\* price, a threshold or the stage is undefined.
C23_DistanceToNextBuyLine ==
    Returned("gap_to_next") =>
        /\ StageOfPrice =>
              /\ calc.stage = ABOVE_A => calc.out = DistanceTo(calc.b1, calc.price)
              /\ calc.stage = BETWEEN_A_B =>
                    calc.out = DistanceTo(calc.b2, calc.price)
              /\ calc.stage \in {BETWEEN_B_C, BELOW_C} =>
                    calc.out = DistanceTo(calc.b3, calc.price)
        /\ (~Defined(calc.price) \/ ~Defined(calc.b1) \/ ~Defined(calc.b2)
              \/ ~Defined(calc.b3) \/ calc.stage = "") => calc.out = NoText

\* A price of 95 between B 90 and A 100 got 5.6%, its distance to B.
C23_Witness ==
    /\ Returned("gap_to_next") /\ calc.stage = BETWEEN_A_B
    /\ calc.price = Num(95)
    /\ calc.b1 = Num(100) /\ calc.b2 = Num(90) /\ calc.b3 = Num(81)
    /\ calc.out = [kind |-> "%", tenths |-> 56]

\* fetch_rank has returned.
FetchReturned == probe.ret.status # ""
Is5xx(o) == ~o.exc /\ 500 <= o.code /\ o.code < 600

\* The attempts and waits so far are within the bound and in order: at most
\* 1 + len(retry_intervals) POSTs, the waits taken are the first of the
\* list in its order, and the k-th POST after the first has k waits before
\* it.
C24_Safe ==
    /\ probe.attempts <= 1 + Len(probe.retry_intervals)
    /\ Len(probe.slept) <= Len(probe.retry_intervals)
    /\ probe.slept = SubSeq(probe.retry_intervals, 1, Len(probe.slept))
    /\ probe.pc = "post" => probe.attempts = Len(probe.slept)
    /\ probe.pc # "post" => probe.attempts = Len(probe.slept) + 1
    /\ FetchReturned => probe.ret.status \in {"live", "retry", "fail"}

\* C24: fetch_rank returns, after at most 1 + len(retry_intervals) POSTs (4
\* with the default), with every retry after its wait, the waits in the
\* order of the list, and with one of the statuses live, retry, fail.
C24_ReturnsWithinBound == []C24_Safe /\ <>FetchReturned

\* With the default intervals four POSTs failed; the waits were 0.5 s, 1 s
\* and 2 s and the status is fail.
C24_Witness ==
    /\ FetchReturned /\ probe.ret.status = "fail"
    /\ probe.attempts = 4
    /\ probe.slept = <<500, 1000, 2000>>

\* A 200 whose body parses, to any JSON value; a 200 whose body parses to a
\* value that is not null.
Parseable(o) == ~o.exc /\ o.code = 200 /\ o.body \in {"json", "null"}
HasData(o) == ~o.exc /\ o.code = 200 /\ o.body = "json"

\* C25 as stated: the status is live exactly when the first attempt answered
\* 200 with a body that parses, retry exactly when a later attempt was the
\* first to, fail otherwise; the data is null exactly for fail.
C25_StatusByParseableBody ==
    FetchReturned =>
        LET os == probe.outcomes
        IN /\ probe.ret.status = "live" <=> Parseable(os[1])
           /\ probe.ret.status = "retry" <=>
                 (~Parseable(os[1]) /\ \E k \in 2..Len(os) : Parseable(os[k]))
           /\ probe.ret.status \in {"live", "retry", "fail"}
           /\ probe.ret.data # NoData <=> probe.ret.status # "fail"

\* C25 as the code has it: the status is live exactly when the first attempt
\* answered 200 with a body that parses to a value other than null, retry
\* exactly when a later attempt was the first to, fail otherwise; the data
\* is null exactly for fail, and else it is the body of the last attempt.
C25_StatusByData ==
    FetchReturned =>
        LET os == probe.outcomes
        IN /\ probe.ret.status = "live" <=> HasData(os[1])
           /\ probe.ret.status = "retry" <=>
                 (~HasData(os[1]) /\ \E k \in 2..Len(os) : HasData(os[k]))
           /\ probe.ret.status \in {"live", "retry", "fail"}
           /\ probe.ret.data # NoData <=> probe.ret.status # "fail"
           /\ probe.ret.status # "fail" =>
                 /\ HasData(os[Len(os)])
                 /\ probe.ret.data = [src |-> "api", id |-> Len(os)]
                 /\ \A k \in 1..(Len(os) - 1) : ~HasData(os[k])

\* The first attempt answered 200 with the body null, the second 200 with
\* data: the status is retry and the data is the second body.
C25_Witness ==
    /\ FetchReturned /\ probe.ret.status = "retry"
    /\ Len(probe.outcomes) = 2
    /\ probe.outcomes[1].code = 200 /\ probe.outcomes[1].body = "null"
    /\ probe.outcomes[2].code = 200 /\ probe.outcomes[2].body = "json"
    /\ probe.ret.data = [src |-> "api", id |-> 2]

\* C26: an attempt answered with a status that is neither 200 nor 5xx makes
\* fetch_rank return (None, that response, fail) at once; once fetch_rank
\* has returned there is no further attempt and no further wait.
C26_OtherStatusFailsAtOnce ==
    [][/\ (probe.pc = "post" /\ probe'.attempts = probe.attempts + 1) =>
             LET o == probe'.outcomes[probe'.attempts]
             IN (~o.exc /\ o.code # 200 /\ ~Is5xx(o)) =>
                   /\ probe'.ret = [data |-> NoData,
                                    resp |-> [attempt |-> probe'.attempts,
                                              code |-> o.code],
                                    status |-> "fail"]
                   /\ probe'.slept = probe.slept
                   /\ probe'.pc \notin {"post", "sleep"}
       /\ FetchReturned =>
             (probe'.attempts = probe.attempts /\ probe'.slept = probe.slept)]_vars

\* The first attempt answered 500, the second, after the first wait, 404:
\* fetch_rank returned fail with the 404 and took no second wait.
C26_Witness ==
    /\ FetchReturned /\ probe.ret.status = "fail"
    /\ probe.attempts = 2
    /\ probe.outcomes[1].code = 500 /\ probe.outcomes[2].code = 404
    /\ probe.ret.resp = [attempt |-> 2, code |-> 404]
    /\ probe.slept = <<500>>
    /\ Len(probe.retry_intervals) = 3

\* C27: a POST that is not the first follows an attempt that was answered
\* with a 5xx status or that raised a network exception.
C27_RetryOnlyAfter5xxOrException ==
    [][(probe.pc = "post" /\ probe'.attempts = probe.attempts + 1
           /\ probe.attempts >= 1) =>
          LET o == probe.outcomes[probe.attempts]
          IN o.exc \/ Is5xx(o)]_vars

\* What the most recently modified file that loads holds, if a file loads.
Loadable(files) == {n \in DOMAIN files : files[n].content # Garbage}
NewestLoadable(files) ==
    CHOOSE n \in Loadable(files) :
        \A m \in Loadable(files) : files[m].mtime <= files[n].mtime

\* C28: main reads the cache only after fetch_rank returned fail; when it
\* has ended, then on success today's file holds the response, on fail
\* with a file that loads today's file holds what the most recently
\* modified such file held and main ended normally, and on fail without
\* one the directory is as it was and the exit code is 2; no other file is
\* ever changed.
C28_SaveOrFallBackOrExit2 ==
    /\ (probe.pc # "none" /\ probe.cache_read) => probe.ret.status = "fail"
    /\ probe.pc = "exited" =>
          /\ \A n \in (DOMAIN probe.dir0) \ {TodayFile} :
                n \in DOMAIN probe.files /\ probe.files[n] = probe.dir0[n]
          /\ probe.ret.status # "fail" =>
                /\ probe.files[TodayFile].content = probe.ret.data
                /\ probe.exit = 0
          /\ (probe.ret.status = "fail" /\ Loadable(probe.dir0) # {}) =>
                /\ TodayFile \in DOMAIN probe.files
                /\ probe.files[TodayFile].content =
                      probe.dir0[NewestLoadable(probe.dir0)].content
                /\ probe.exit = 0
          /\ (probe.ret.status = "fail" /\ Loadable(probe.dir0) = {}) =>
                /\ probe.files = probe.dir0
                /\ probe.exit = 2

\* The tickers of the batch a run hands to increment_times_above_5k.
BatchTickers(p) ==
    LET wuniv_rows == build_rows_for_tables(proc[p].df, proc[p].date).wuniv
    IN {wuniv_rows[i].ticker : i \in 1..Len(wuniv_rows)}

\* C29: the loop and the upsert_many of increment_times_above_5k leave
\* leaders_history, leaders_events and prices_daily as they were, add no
\* watch_universe row for a ticker that is not in the batch, and leave every
\* column of the stored watch_universe rows of such tickers as it was.
C29_OnlyBatchRowsChange ==
    [][\A p \in Procs :
          (proc[p].pc = "increment" /\ proc'[p].pc = "done") =>
             /\ db'[LH] = db[LH]
             /\ db'[LE] = db[LE]
             /\ db'[PD] = db[PD]
             /\ DOMAIN db'[WU] = DOMAIN db[WU] \cup BatchTickers(p)
             /\ \A t \in DOMAIN db[WU] \ BatchTickers(p) :
                    db'[WU][t] = db[WU][t]]_vars

\* Both runs are done, one with a batch of AAA alone and one with a batch of
\* BBB alone: the later of the two ran with the other's row stored, and both
\* rows are there, each as its own run wrote it.
C29_Witness ==
    /\ \A p \in Procs : proc[p].pc = "done"
    /\ {BatchTickers(p) : p \in Procs} = {{"AAA"}, {"BBB"}}
    /\ \A p \in Procs : proc[p].date = 1 /\ Leaders(proc[p].df) # {}
    /\ DOMAIN db[WU] = {"AAA", "BBB"}
    /\ \A t \in {"AAA", "BBB"} :
          db[WU][t].times_above_5k = 1 /\ db[WU][t].first_seen = 1

\* The bars of ticker t that pass the market-cap filter, by their place.
Passing(df, t) ==
    {i \in PlacesOf(df, t) : Ge(df[i].market_cap, min_mcap_won)}

\* C30: the sheet of build_s1_snapshot has one row for every ticker with a
\* bar whose market cap is at least the minimum and none for any other
\* ticker, and the row is of a passing bar of the ticker with the latest
\* date among its passing bars, whatever the bars after it are.
C30_LatestPassingBarPerTicker ==
    Returned("build_s1_snapshot") =>
        LET df == calc.df
            out == calc.out
        IN /\ \A t \in Tickers :
                 Cardinality({k \in 1..Len(out) : out[k].ticker = t}) =
                     IF Passing(df, t) # {} THEN 1 ELSE 0
           /\ \A k \in 1..Len(out) :
                 \E i \in Passing(df, out[k].ticker) :
                    /\ out[k].close = df[i].close
                    /\ out[k].mcap_eok = 1000 * df[i].market_cap.n
                    /\ \A j \in Passing(df, out[k].ticker) :
                          df[j].date <= df[i].date

\* AAA passes on day 1 and fails on day 2, BBB fails on its one day: the
\* sheet has the one row of AAA's bar of day 1.
C30_Witness ==
    /\ Returned("build_s1_snapshot")
    /\ Len(calc.df) = 3
    /\ calc.df[1].ticker = "AAA" /\ calc.df[1].date = 1
    /\ calc.df[1].market_cap = Num(13)
    /\ calc.df[2].ticker = "AAA" /\ calc.df[2].date = 2
    /\ calc.df[2].market_cap = Num(12)
    /\ calc.df[3].ticker = "BBB" /\ calc.df[3].market_cap = Num(12)
    /\ Len(calc.out) = 1
    /\ calc.out[1].ticker = "AAA" /\ calc.out[1].close = calc.df[1].close
    /\ calc.out[1].mcap_eok = 13000

====
